---------------------------- MODULE Spec2Model ----------------------------
(***************************************************************************)
(* The moderation decision engine of src/main.py: the three rule lists,    *)
(* rule_hit, naive_toxicity_score, decide and the /decide handler.         *)
(*                                                                         *)
(* A text is a sequence of words joined by single spaces.  Every word of   *)
(* the vocabulary carries the character-level facts the code reads: its    *)
(* length, its number of uppercase characters, what str.lower() makes of   *)
(* it and what a case-insensitive regex takes it for.  Scores are in       *)
(* hundredths (0.05 is 5, 1.0 is 100); on the 32 sums the scorer can form, *)
(* the float comparisons with 0.9, 0.7 and 0.4 agree with the integer      *)
(* ones.                                                                   *)
(*                                                                         *)
(* A compiled pattern is the token sequence of its source text, which is   *)
(* also the label rule_hit returns (pat.pattern).                          *)
(***************************************************************************)
EXTENDS Integers, Sequences, FiniteSets

VARIABLES
    phase,            \* "import", "serving" or "import_error": the module's load state
    todo,             \* rule sources the module's top level has still to compile
    BLOCKLIST_REGEX,  \* module global, list of compiled patterns
    WATCHLIST_REGEX,  \* module global, list of compiled patterns
    SLUR_PATTERNS,    \* module global, list of compiled patterns
    payload,          \* the DecideIn of the current request: text, actor, context
    pc,               \* "pending": request not yet handled; "done": handled
    frame,            \* the locals of the last decide call
    out,              \* the response of the last request
    prev              \* <<>>, or the one-element list of the summary of the request handled before

vars == <<phase, todo, BLOCKLIST_REGEX, WATCHLIST_REGEX, SLUR_PATTERNS,
          payload, pc, frame, out, prev>>

None == "None"

-----------------------------------------------------------------------------
(* Bounds *)

\* A request text is made of at most MaxPhrases phrases.
MaxPhrases == 2

-----------------------------------------------------------------------------
(* Words: character-level facts *)

W_hello   == "hello"
W_KILL    == "KILL"
W_kill    == "kill"
W_kIll    == "k<U+0130>ll"            \* k, LATIN CAPITAL I WITH DOT ABOVE, l, l
W_kidll   == "ki<U+0307>ll"           \* its str.lower(): k, i, COMBINING DOT ABOVE, l, l
W_stone   == "stone"
W_hang    == "hang"
W_him     == "him"
W_them    == "them"
W_phone   == "0712345678"
W_email   == "a@b.co"
W_emailK  == "a@b.<U+212A><U+212A>"   \* a@b. followed by two KELVIN SIGNs
W_emailk  == "a@b.kk"                 \* its str.lower()
W_mado    == "madoadoa"
W_bitly   == "bit.ly"
W_mpesa   == "mpesa"
W_double  == "double"
W_UDA     == "UDA"
W_uda     == "uda"
W_is      == "is"
W_a       == "a"
W_thief   == "thief"
W_bangs   == "!!!"
W_long    == "<a*201>"                \* 201 times the letter a
W_CAPS    == "<A*21>"                 \* 21 times the letter A
W_caps    == "<a*21>"
W_SHOUT   == "<A*201>!!!"             \* 201 times the letter A, then !!!
W_shout   == "<a*201>!!!"
W_slur1   == "<slur1>"                \* a lowercase word the first slur rule is meant to hit
W_slur2   == "<slur2>"                \* a lowercase word the second slur rule is meant to hit

\* len(w)
WLen(w) ==
    CASE w \in {W_a} -> 1
      [] w \in {W_is} -> 2
      [] w \in {W_him, W_UDA, W_uda, W_bangs} -> 3
      [] w \in {W_KILL, W_kill, W_kIll, W_hang, W_them} -> 4
      [] w \in {W_hello, W_kidll, W_stone, W_mpesa, W_thief, W_slur1, W_slur2} -> 5
      [] w \in {W_email, W_emailK, W_emailk, W_bitly, W_double} -> 6
      [] w \in {W_mado} -> 8
      [] w \in {W_phone} -> 10
      [] w \in {W_CAPS, W_caps} -> 21
      [] w \in {W_long} -> 201
      [] w \in {W_SHOUT, W_shout} -> 204

\* sum(1 for c in w if c.isupper())
Upper(w) ==
    CASE w = W_KILL -> 4
      [] w = W_kIll -> 1
      [] w = W_emailK -> 2
      [] w = W_UDA -> 3
      [] w = W_CAPS -> 21
      [] w = W_SHOUT -> 201
      [] OTHER -> 0

\* w.lower()
Lower(w) ==
    CASE w = W_KILL -> W_kill
      [] w = W_kIll -> W_kidll
      [] w = W_emailK -> W_emailk
      [] w = W_UDA -> W_uda
      [] w = W_CAPS -> W_caps
      [] w = W_SHOUT -> W_shout
      [] OTHER -> w

\* The lowercase ASCII word a (?i) pattern takes w for: under re.IGNORECASE
\* U+0130 matches i and U+212A matches k, U+0307 matches nothing but itself.
IFold(w) ==
    CASE w = W_KILL -> W_kill
      [] w = W_kIll -> W_kill
      [] w = W_emailK -> W_emailk
      [] w = W_UDA -> W_uda
      [] w = W_CAPS -> W_caps
      [] w = W_SHOUT -> W_shout
      [] OTHER -> w

\* "!!!" in w or "???" in w
HasEmphasis(w) == w \in {W_bangs, W_SHOUT, W_shout}

-----------------------------------------------------------------------------
(* Texts *)

RECURSIVE SumLen(_)
SumLen(ws) == IF ws = <<>> THEN 0 ELSE WLen(Head(ws)) + SumLen(Tail(ws))

RECURSIVE SumUpper(_)
SumUpper(ws) == IF ws = <<>> THEN 0 ELSE Upper(Head(ws)) + SumUpper(Tail(ws))

\* len(text): the words and the single spaces between them
TextLen(ws) == IF ws = <<>> THEN 0 ELSE SumLen(ws) + Len(ws) - 1

\* sum(1 for c in text if c.isupper())
UpperCount(ws) == SumUpper(ws)

\* "!!!" in text or "???" in text
Emphasis(ws) == \E i \in DOMAIN ws : HasEmphasis(ws[i])

\* text.lower()
LowerText(ws) == [i \in DOMAIN ws |-> Lower(ws[i])]

\* Number of characters strictly between word i and word j (i < j) of the text.
Gap(ws, i, j) == SumLen(SubSeq(ws, i + 1, j - 1)) + (j - i)

-----------------------------------------------------------------------------
(* The rule sources, as token sequences *)

SrcViolence ==
    << "(?i)", "\\b", "(", "kill", "|", "lynch", "|", "burn", "|", "shoot", "|",
       "stone", "|", "attack", "|", "beat", ")", "\\b", ".", "{0,18}", "\\b", "(",
       "him", "|", "her", "|", "them", "|", "you", "|", "ichung", "[w]", "ah", "|",
       "majority", "\\s", "*", "leader", "|", "mp", ")", "\\b" >>

SrcHang ==
    << "(?i)", "\\b", "hang", "\\b", ".", "{0,18}", "\\b", "(", "him", "|", "her",
       "|", "them", "|", "you", "|", "ichung", "[w]", "ah", ")", "\\b" >>

SrcPhone == << "\\b", "(", "07", "|", "01", ")", "\\d", "{8}", "\\b" >>

SrcEmail ==
    << "\\b", "[A-Za-z0-9._%+-]", "+", "@", "[A-Za-z0-9.-]", "+", "\\.",
       "[A-Za-z]", "{2,}", "\\b" >>

SrcMadoadoa == << "(?i)", "\\b", "madoadoa", "\\b" >>

SrcShortLink ==
    << "(?i)", "\\b", "(", "bit", "\\.", "ly", "|", "tinyurl", "\\.", "com", "|",
       "ow", "\\.", "ly", "|", "buff", "\\.", "ly", "|", "t", "\\.", "co", "|",
       "goo", "\\.", "gl", "|", "smarturl", "\\.", "it", ")", "\\b" >>

SrcScam ==
    << "(?i)", "\\b", "DM", " ", "(", "me", "|", "now", ")", " ", "for", " ",
       "profits", "\\b", "|", "\\b", "WhatsApp", "\\b", ".", "{0,12}", "\\b",
       "profits", "\\b", "|", "\\b", "mpesa", "\\b", ".", "{0,12}", "\\b", "(",
       "double", "|", "multiply", ")", "\\b" >>

SrcTopics ==
    << "(?i)", "handshake", "|", "deep", " ", "state", "|", "state", " ", "capture",
       "|", "finance", " ", "bill", "|", "tax", " ", "hike", "|", "UDA", "|",
       "Azimio", "|", "bi-partisan", "|", "public", " ", "participation" >>

SrcAccusation ==
    << "(?i)", "(", "is", "|", "are", "|", "was", "|", "were", ")", "\\s", "+",
       "(", "a", "|", "an", ")", "\\s", "+", "(", "thief", "|", "corrupt", "|",
       "liar", "|", "traitor", ")" >>

SrcSlur1 == << "(?i)", "\\b", "[k*]", "w", "[a@]", "*", "*", "*", "\\b" >>

SrcSlur2 == << "(?i)", "\\b", "[jg]", "*", "*", "*", "[t7]", "\\b" >>

BlocklistSources ==
    << SrcViolence, SrcHang, SrcPhone, SrcEmail, SrcMadoadoa, SrcShortLink, SrcScam >>

WatchlistSources == << SrcTopics, SrcAccusation >>

SlurSources == << SrcSlur1, SrcSlur2 >>

-----------------------------------------------------------------------------
(* re.compile and Pattern.search *)

\* The repeat tokens of the rule sources.
RepeatTokens == {"*", "+", "{0,18}", "{0,12}", "{8}", "{2,}"}

\* re.compile(src) succeeds: sre_parse raises "multiple repeat" when a repeat
\* directly follows a repeat (a following ? or + would be a lazy or possessive
\* mark, * and {m,n} are not).
CompileOk(src) ==
    ~ \E k \in 1 .. (Len(src) - 1) :
          src[k] \in RepeatTokens /\ src[k + 1] \in RepeatTokens \ {"+"}

GapViolence == 18
GapScam == 12

ViolenceVerbs == {"kill", "lynch", "burn", "shoot", "stone", "attack", "beat"}
HangTargets == {"him", "her", "them", "you", "ichungwah"}
ViolenceTargets == HangTargets \cup {"majorityleader", "mp"}
ShortLinks == {"bit.ly", "tinyurl.com", "ow.ly", "buff.ly", "t.co", "goo.gl", "smarturl.it"}
Topics == {"handshake", "uda", "azimio", "bi-partisan"}
TopicPairs == { <<"deep", "state">>, <<"state", "capture">>, <<"finance", "bill">>,
                <<"tax", "hike">>, <<"public", "participation">> }

\* word i of the text is word w, case-insensitively
IsWord(ws, i, w) == i \in DOMAIN ws /\ IFold(ws[i]) = w

\* \b(v1|v2|..)\b.{0,gap}\b(t1|t2|..)\b : a verb word, then a target word that
\* starts at most gap characters after the verb ends.
VerbThenTarget(ws, verbs, targets, gap) ==
    \E i \in DOMAIN ws :
        /\ IFold(ws[i]) \in verbs
        /\ \E j \in (i + 1) .. Len(ws) :
              /\ IFold(ws[j]) \in targets
              /\ Gap(ws, i, j) <= gap

\* pat.search(text) for each rule of the module, on texts over the vocabulary.
\* The two slur sources are no regular expressions (CompileOk is false of them);
\* where the engine is given them as compiled, each hits exactly its own word.
Search(pat, ws) ==
    CASE pat = SrcViolence ->
            \/ VerbThenTarget(ws, ViolenceVerbs, ViolenceTargets, GapViolence)
            \/ \E i \in DOMAIN ws :
                  /\ IFold(ws[i]) \in ViolenceVerbs
                  /\ \E j \in (i + 1) .. Len(ws) :
                        /\ IsWord(ws, j, "majority") /\ IsWord(ws, j + 1, "leader")
                        /\ Gap(ws, i, j) <= GapViolence
      [] pat = SrcHang -> VerbThenTarget(ws, {"hang"}, HangTargets, GapViolence)
      [] pat = SrcPhone -> \E i \in DOMAIN ws : ws[i] = W_phone
      [] pat = SrcEmail -> \E i \in DOMAIN ws : ws[i] \in {W_email, W_emailk}
      [] pat = SrcMadoadoa -> \E i \in DOMAIN ws : IFold(ws[i]) = W_mado
      [] pat = SrcShortLink -> \E i \in DOMAIN ws : IFold(ws[i]) \in ShortLinks
      [] pat = SrcScam ->
            \/ \E i \in DOMAIN ws :
                  /\ IsWord(ws, i, "dm")
                  /\ (IsWord(ws, i + 1, "me") \/ IsWord(ws, i + 1, "now"))
                  /\ IsWord(ws, i + 2, "for") /\ IsWord(ws, i + 3, "profits")
            \/ VerbThenTarget(ws, {"whatsapp"}, {"profits"}, GapScam)
            \/ VerbThenTarget(ws, {"mpesa"}, {"double", "multiply"}, GapScam)
      [] pat = SrcTopics ->
            \E i \in DOMAIN ws :
                \/ IFold(ws[i]) \in Topics
                \/ \E tp \in TopicPairs : IsWord(ws, i, tp[1]) /\ IsWord(ws, i + 1, tp[2])
      [] pat = SrcAccusation ->
            \E i \in DOMAIN ws :
                /\ IFold(ws[i]) \in {"is", "are", "was", "were"}
                /\ (IsWord(ws, i + 1, "a") \/ IsWord(ws, i + 1, "an"))
                /\ i + 2 \in DOMAIN ws
                /\ IFold(ws[i + 2]) \in {"thief", "corrupt", "liar", "traitor"}
      [] pat = SrcSlur1 -> \E i \in DOMAIN ws : IFold(ws[i]) = W_slur1
      [] pat = SrcSlur2 -> \E i \in DOMAIN ws : IFold(ws[i]) = W_slur2
      [] OTHER -> FALSE

-----------------------------------------------------------------------------
(* rule_hit, naive_toxicity_score, decide *)

Min(a, b) == IF a <= b THEN a ELSE b
Max(a, b) == IF a >= b THEN a ELSE b

rule_hit_all(text, patterns) == patterns

\* [pat.pattern for pat in patterns if pat.search(text)]
rule_hit(text, patterns) == SelectSeq(patterns, LAMBDA pat : Search(pat, text))

LongTextLimit == 200
ShoutLimit == 20
WeightLength == 5
WeightShout == 10
WeightEmphasis == 10
WeightSlur == 50
WeightBlock == 40
ScoreCap == 100

Clamp_none(s) == s

\* min(s, 1.0)
Clamp(s) == Min(s, ScoreCap)

naive_toxicity_score(text) ==
    LET t  == LowerText(text)
        s1 == IF TextLen(text) > LongTextLimit THEN WeightLength ELSE 0
        s2 == s1 + (IF UpperCount(text) > ShoutLimit THEN WeightShout ELSE 0)
        s3 == s2 + (IF Emphasis(text) THEN WeightEmphasis ELSE 0)
        s4 == s3 + (IF rule_hit(t, SLUR_PATTERNS) # <<>> THEN WeightSlur ELSE 0)
        s5 == s4 + (IF rule_hit(t, BLOCKLIST_REGEX) # <<>> THEN WeightBlock ELSE 0)
    IN  Clamp(s5)

Truthy_notNone(b) == b # None

\* bool(actor.is_whitelisted) for an Optional[bool]
Truthy(b) == b = "True"

HardDeleteTerms_noHang == {"kill", "lynch", "burn", "shoot", "attack"}

\* The terms of the regex line 88 searches the matched labels for.
HardDeleteTerms == {"kill", "lynch", "burn", "shoot", "hang", "attack"}

\* re.search(r"(?i)kill|lynch|burn|shoot|hang|attack", m) for a label m: none of
\* the terms straddles two tokens of a rule source or lies inside a longer token.
LabelIncites(m) == \E k \in DOMAIN m : m[k] \in HardDeleteTerms

\* re.search(r"\b(07|01)\d{8}\b", text)
PhoneInText(text) == Search(SrcPhone, text)

ScoreDelete == 90
ScoreHide == 70
ScoreReview == 40

DecideOut(action, score, rule_matches) ==
    [action |-> action, score |-> score, rule_matches |-> rule_matches]

\* The locals lines 81 to 83 compute.
decide_locals(text) ==
    [matches_block |-> rule_hit(text, BLOCKLIST_REGEX) \o rule_hit(text, SLUR_PATTERNS),
     matches_watch |-> rule_hit(text, WATCHLIST_REGEX),
     tox           |-> naive_toxicity_score(text)]

WhitelistedOut_escalates(matches_block, matches_watch, tox) ==
    DecideOut(IF matches_block # <<>> THEN "HIDE" ELSE "ALLOW", tox,
              matches_block \o matches_watch)

\* Line 86, the return for a whitelisted actor.
WhitelistedOut(matches_block, matches_watch, tox) ==
    DecideOut(IF matches_block # <<>> THEN "REVIEW" ELSE "ALLOW", tox,
              matches_block \o matches_watch)

\* Line 88, the condition of the hard delete.
HardDelete(text, matches_block) ==
    \/ \E k \in DOMAIN matches_block : LabelIncites(matches_block[k])
    \/ PhoneInText(text)

Ladder_review_first(matches_block, matches_watch, tox) ==
    IF tox >= ScoreDelete
    THEN DecideOut("DELETE", tox, matches_block \o matches_watch)
    ELSE IF tox >= ScoreReview \/ matches_watch # <<>>
    THEN DecideOut("REVIEW", Max(ScoreReview, tox), matches_block \o matches_watch)
    ELSE IF tox >= ScoreHide \/ matches_block # <<>>
    THEN DecideOut("HIDE", Max(ScoreHide, tox), matches_block \o matches_watch)
    ELSE DecideOut("ALLOW", tox, matches_block \o matches_watch)

Ladder_tox_only(matches_block, matches_watch, tox) ==
    IF tox >= ScoreDelete
    THEN DecideOut("DELETE", tox, matches_block \o matches_watch)
    ELSE IF tox >= ScoreHide \/ matches_block # <<>>
    THEN DecideOut("HIDE", Max(ScoreHide, tox), matches_block \o matches_watch)
    ELSE IF tox >= ScoreReview
    THEN DecideOut("REVIEW", Max(ScoreReview, tox), matches_block \o matches_watch)
    ELSE DecideOut("ALLOW", tox, matches_block \o matches_watch)

\* Lines 91 to 94.
Ladder(matches_block, matches_watch, tox) ==
    IF tox >= ScoreDelete
    THEN DecideOut("DELETE", tox, matches_block \o matches_watch)
    ELSE IF tox >= ScoreHide \/ matches_block # <<>>
    THEN DecideOut("HIDE", Max(ScoreHide, tox), matches_block \o matches_watch)
    ELSE IF tox >= ScoreReview \/ matches_watch # <<>>
    THEN DecideOut("REVIEW", Max(ScoreReview, tox), matches_block \o matches_watch)
    ELSE DecideOut("ALLOW", tox, matches_block \o matches_watch)

\* Lines 85 to 94 on the locals: each return ends the call.
decide_branches(text, actor, matches_block, matches_watch, tox) ==
    IF Truthy(actor.is_whitelisted)
    THEN WhitelistedOut(matches_block, matches_watch, tox)
    ELSE IF HardDelete(text, matches_block)
    THEN DecideOut("DELETE", Max(ScoreDelete, tox), matches_block)
    ELSE Ladder(matches_block, matches_watch, tox)

decide(text, actor) ==
    LET loc == decide_locals(text)
    IN  decide_branches(text, actor, loc.matches_block, loc.matches_watch, loc.tox)

-----------------------------------------------------------------------------
(* Requests *)

Phrases ==
    { << W_hello >>,
      << W_KILL, W_him >>,
      << W_stone, W_them >>,
      << W_hang, W_him >>,
      << W_kIll, W_him >>,
      << W_phone >>,
      << W_email >>,
      << W_emailK >>,
      << W_mado, W_bitly, W_mpesa, W_double >>,
      << W_UDA >>,
      << W_is, W_a, W_thief >>,
      << W_bangs >>,
      << W_long >>,
      << W_CAPS >>,
      << W_slur1 >>,
      << W_SHOUT, W_slur2 >> }

RECURSIVE TextsOf(_)
TextsOf(n) ==
    IF n = 0 THEN { <<>> }
    ELSE LET shorter == TextsOf(n - 1)
         IN  shorter \cup { t \o p : t \in shorter, p \in Phrases }

Texts == TextsOf(MaxPhrases)

\* ActorMeta: three Optional fields; an anonymous author or a known new account,
\* with each value of the whitelist flag.
Authors == { [user_id |-> None, is_new_account |-> None],
             [user_id |-> "u1", is_new_account |-> "True"] }

Actors ==
    { [user_id |-> u.user_id, is_new_account |-> u.is_new_account, is_whitelisted |-> w] :
        u \in Authors, w \in {None, "False", "True"} }

Contexts == {None, "ctx"}

\* DecideIn
Payloads == [text : Texts, actor : Actors, context : Contexts]

\* The first request of a run carries no context.
FirstPayloads == [text : Texts, actor : Actors, context : {None}]

NoFrame == [matches_block |-> <<>>, matches_watch |-> <<>>, tox |-> 0]

\* No response yet.
NoResponse == DecideOut("NONE", 0, <<>>)

\* What a caller gets when the module never finished importing: re.error, no DecideOut.
ImportError == DecideOut("ERROR", 0, <<>>)

-----------------------------------------------------------------------------
(* The engine with its rule lists installed: the three globals hold their   *)
(* sources as if each had compiled, the slur rules hitting their own words. *)
(* ImportSpec, further down, starts from the import of the module instead.  *)

Init ==
    /\ phase = "serving"
    /\ todo = <<>>
    /\ BLOCKLIST_REGEX = BlocklistSources
    /\ WATCHLIST_REGEX = WatchlistSources
    /\ SLUR_PATTERNS = SlurSources
    /\ payload \in FirstPayloads
    /\ pc = "pending"
    /\ frame = NoFrame
    /\ out = NoResponse
    /\ prev = <<>>

\* One call decide(payload.text, payload.actor).
Call(p) ==
    /\ frame' = (IF phase = "serving" THEN decide_locals(p.text) ELSE NoFrame)
    /\ out' = (IF phase = "serving" THEN decide(p.text, p.actor) ELSE ImportError)
    /\ UNCHANGED <<phase, todo, BLOCKLIST_REGEX, WATCHLIST_REGEX, SLUR_PATTERNS>>

\* The pending request is handled.
Decide ==
    /\ phase # "import"
    /\ pc = "pending"
    /\ Call(payload)
    /\ pc' = "done"
    /\ UNCHANGED <<payload, prev>>

\* A second request with the same text, from any actor, with any context.
Redecide ==
    /\ phase # "import"
    /\ pc = "done"
    /\ prev = <<>>
    /\ \E a \in Actors, c \in Contexts :
          /\ payload' = [text |-> payload.text, actor |-> a, context |-> c]
          /\ Call(payload')
    /\ prev' = << [is_whitelisted |-> payload.actor.is_whitelisted, out |-> out] >>
    /\ pc' = "done"

Next == Decide \/ Redecide

Spec == Init /\ [][Next]_vars

-----------------------------------------------------------------------------
(* The module from its import on *)

\* The three assignments of lines 30 to 48, in order.
RuleAssignments ==
    << [name |-> "BLOCKLIST_REGEX", sources |-> BlocklistSources],
       [name |-> "WATCHLIST_REGEX", sources |-> WatchlistSources],
       [name |-> "SLUR_PATTERNS",   sources |-> SlurSources] >>

InitImport ==
    /\ phase = "import"
    /\ todo = RuleAssignments
    /\ BLOCKLIST_REGEX = <<>>
    /\ WATCHLIST_REGEX = <<>>
    /\ SLUR_PATTERNS = <<>>
    /\ payload \in FirstPayloads
    /\ pc = "pending"
    /\ frame = NoFrame
    /\ out = NoResponse
    /\ prev = <<>>

\* The next rule list is built: every source is compiled, then the name is bound.
\* A re.error ends the import; after the last list the module finishes loading.
ImportRules ==
    /\ phase = "import"
    /\ todo # <<>>
    /\ LET a  == Head(todo)
           ok == \A k \in DOMAIN a.sources : CompileOk(a.sources[k])
       IN  /\ phase' = (IF ~ok THEN "import_error"
                        ELSE IF Tail(todo) = <<>> THEN "serving" ELSE "import")
           /\ todo' = (IF ok THEN Tail(todo) ELSE todo)
           /\ BLOCKLIST_REGEX' =
                 (IF ok /\ a.name = "BLOCKLIST_REGEX" THEN a.sources ELSE BLOCKLIST_REGEX)
           /\ WATCHLIST_REGEX' =
                 (IF ok /\ a.name = "WATCHLIST_REGEX" THEN a.sources ELSE WATCHLIST_REGEX)
           /\ SLUR_PATTERNS' =
                 (IF ok /\ a.name = "SLUR_PATTERNS" THEN a.sources ELSE SLUR_PATTERNS)
    /\ UNCHANGED <<payload, pc, frame, out, prev>>

NextImport == ImportRules \/ Decide

ImportSpec == InitImport /\ [][NextImport]_vars

-----------------------------------------------------------------------------
(* What the properties below read *)

Handled == pc = "done"
Served == pc = "done" /\ phase = "serving"
ActionLadder == {"ALLOW", "REVIEW", "HIDE", "DELETE"}
Whitelisted == payload.actor.is_whitelisted = "True"

\* The labels of the sources that hit the text, in list order.
Matched(text, sources) == SelectSeq(sources, LAMBDA src : Search(src, text))

MatchedBlock == Matched(payload.text, BlocklistSources \o SlurSources)
MatchedWatch == Matched(payload.text, WatchlistSources)
Tox == naive_toxicity_score(payload.text)

\* The violent-incitement terms as the specification lists them.
InciteTerms == {"kill", "lynch", "burn", "attack", "shoot", "hang", "stone"}

\* Some matched blocklist/slur label contains an incitement term, or the raw
\* text holds a local phone number.
OverrideOn(mb) ==
    \/ \E k \in DOMAIN mb : \E j \in DOMAIN mb[k] : mb[k][j] \in InciteTerms
    \/ Matched(payload.text, << SrcPhone >>) # <<>>

Override == OverrideOn(MatchedBlock)

\* The five signals of the scorer, the two rule signals taken on the text as
\* decide matches it.
SignalSum ==
      (IF TextLen(payload.text) > 200 THEN 5 ELSE 0)
    + (IF UpperCount(payload.text) > 20 THEN 10 ELSE 0)
    + (IF Emphasis(payload.text) THEN 10 ELSE 0)
    + (IF Matched(payload.text, SlurSources) # <<>> THEN 50 ELSE 0)
    + (IF Matched(payload.text, BlocklistSources) # <<>> THEN 40 ELSE 0)

-----------------------------------------------------------------------------
(* Properties *)

\* C1: for a whitelisted actor the action is REVIEW if the text matches a
\* blocklist or slur pattern and ALLOW otherwise, never HIDE or DELETE; the
\* score is the toxicity score unchanged and rule_matches is the block matches
\* followed by the watch matches.
C1_WhitelistedReviewOrAllow ==
    (Served /\ Whitelisted) =>
        LET mb == MatchedBlock
        IN  /\ out.action = (IF mb # <<>> THEN "REVIEW" ELSE "ALLOW")
            /\ out.action \notin {"HIDE", "DELETE"}
            /\ out.score = Tox
            /\ out.rule_matches = mb \o MatchedWatch

\* A whitelisted actor's text with an incitement phrase and a phone number was reviewed.
C1_Witness ==
    /\ Served /\ Whitelisted
    /\ Matched(payload.text, << SrcViolence >>) # <<>>
    /\ Matched(payload.text, << SrcPhone >>) # <<>>
    /\ out.action = "REVIEW"

\* C2: for a non-whitelisted actor, a matched label containing an incitement
\* term or a phone number in the raw text gives DELETE with score
\* max(0.9, tox), hence at least 0.9.
C2_HardDelete ==
    (Served /\ ~Whitelisted /\ Override) =>
        LET tox == Tox
        IN  /\ out.action = "DELETE"
            /\ out.score = (IF tox >= 90 THEN tox ELSE 90)
            /\ out.score >= 90

\* "hang" followed by a target, no phone number, a score below 0.9 raised to 0.9.
C2_Witness ==
    /\ Served /\ ~Whitelisted
    /\ Matched(payload.text, << SrcHang >>) # <<>>
    /\ Matched(payload.text, << SrcViolence, SrcPhone >>) = <<>>
    /\ Tox < 90
    /\ out.action = "DELETE" /\ out.score = 90

\* C3: for a non-whitelisted actor without the hard delete, the first matching
\* rung decides: tox >= 0.90 DELETE with tox; else tox >= 0.70 or a block match
\* HIDE with max(0.7, tox); else tox >= 0.40 or a watch match REVIEW with
\* max(0.4, tox); else ALLOW with tox.
C3_Ladder ==
    LET mb  == MatchedBlock
        tox == Tox
    IN  (Served /\ ~Whitelisted /\ ~OverrideOn(mb)) =>
            IF tox >= 90
            THEN out.action = "DELETE" /\ out.score = tox
            ELSE IF tox >= 70 \/ mb # <<>>
            THEN out.action = "HIDE" /\ out.score = (IF tox >= 70 THEN tox ELSE 70)
            ELSE IF tox >= 40 \/ MatchedWatch # <<>>
            THEN out.action = "REVIEW" /\ out.score = (IF tox >= 40 THEN tox ELSE 40)
            ELSE out.action = "ALLOW" /\ out.score = tox

\* A block match with a watch match and a score of 0.4: the HIDE rung wins
\* over the REVIEW rung below it.
C3_Witness ==
    /\ Served /\ ~Whitelisted /\ ~Override
    /\ MatchedBlock # <<>> /\ MatchedWatch # <<>>
    /\ Tox = 40
    /\ out.action = "HIDE" /\ out.score = 70

\* C4: the toxicity score and the score of every DecideOut lie in [0.0, 1.0].
C4_ScoreInUnitInterval ==
    Served => /\ 0 <= frame.tox /\ frame.tox <= 100
              /\ 0 <= out.score /\ out.score <= 100

\* All five signals fired: the sum 1.15 was cut to 1.0.
C4_Witness ==
    /\ Served
    /\ SignalSum = 115
    /\ frame.tox = 100 /\ out.score = 100

\* C5: the toxicity score is min(1.0, sum of the weights of the signals that
\* fire), the slur and blocklist signals firing exactly when the matcher finds
\* a slur or blocklist hit on the text decide matches.
C5_ScoreIsSignalSum ==
    Served => frame.tox = (IF SignalSum >= 100 THEN 100 ELSE SignalSum)

\* C6: no request ends in an error: every text yields a DecideOut with one of
\* the four actions, and a text with no pattern match, at most 200 characters,
\* at most 20 uppercase characters and no !!! or ??? yields ALLOW, 0.0, no
\* rule_matches, whoever the actor is.
C6_NoErrorAndBenignAllowed ==
    Handled =>
        /\ out.action \in ActionLadder
        /\ ( ( /\ MatchedBlock = <<>> /\ MatchedWatch = <<>>
               /\ TextLen(payload.text) <= 200
               /\ UpperCount(payload.text) <= 20
               /\ ~Emphasis(payload.text) )
             => out = DecideOut("ALLOW", 0, <<>>) )

\* A text that matches a watchlist pattern, no blocklist or slur pattern, and
\* scores below 0.40.
WatchOnly == MatchedWatch # <<>> /\ MatchedBlock = <<>> /\ Tox < 40

\* C7, as stated: such a text yields REVIEW, whoever the actor is.
C7_WatchOnlyReview_AnyActor == (Served /\ WatchOnly) => out.action = "REVIEW"

\* C7, amended: such a text from a non-whitelisted actor yields REVIEW.
C7_WatchOnlyReview == (Served /\ WatchOnly /\ ~Whitelisted) => out.action = "REVIEW"

C7_Witness ==
    /\ Served /\ WatchOnly /\ ~Whitelisted
    /\ out.action = "REVIEW" /\ out.score = 40

C9_RuleMatches ==
    Served =>
        LET mb == MatchedBlock
        IN  /\ \A k \in DOMAIN out.rule_matches :
                  Search(out.rule_matches[k], payload.text)
            /\ out.rule_matches =
                  (IF ~Whitelisted /\ OverrideOn(mb) THEN mb ELSE mb \o MatchedWatch)

\* A hard delete of a text with a watchlist hit: the hit is left out.
C9_Witness ==
    /\ Served /\ ~Whitelisted /\ Override
    /\ MatchedWatch # <<>>
    /\ out.action = "DELETE"
    /\ out.rule_matches = MatchedBlock

\* C10: for a non-whitelisted actor the matched lists alone fix the action:
\* HIDE or DELETE iff a block match, REVIEW iff no block match and a watch
\* match (score exactly 0.4), ALLOW iff neither (score at most 0.25); a score
\* of 0.40 or more implies a block match, a phone number a blocklist match.
C10_MatchesDecide ==
    (Served /\ ~Whitelisted) =>
        /\ (out.action \in {"HIDE", "DELETE"}) <=> (frame.matches_block # <<>>)
        /\ (out.action = "REVIEW")
              <=> (frame.matches_block = <<>> /\ frame.matches_watch # <<>>)
        /\ (out.action = "REVIEW") => (out.score = 40)
        /\ (out.action = "ALLOW")
              <=> (frame.matches_block = <<>> /\ frame.matches_watch = <<>>)
        /\ (out.action = "ALLOW") => (out.score <= 25)
        /\ (frame.tox >= 40) => (frame.matches_block # <<>>)
        /\ PhoneInText(payload.text) => (Matched(payload.text, BlocklistSources) # <<>>)

=============================================================================
